---- MODULE Spec2Model ----
(***************************************************************************)
(* Warbler (flask-warbler): the request handlers of app.py over the store  *)
(* (users, messages, follows, likes) and the per-browser sessions.         *)
(* Every request is one atomic step, except signup, whose commit is a      *)
(* separate step so that concurrent signups can race on the store's        *)
(* uniqueness constraint.                                                  *)
(*                                                                         *)
(* models.py and forms.py are not among the sources: the store's           *)
(* constraints and cascades, User.signup, User.authenticate and the forms' *)
(* validation follow the specification.                                    *)
(*                                                                         *)
(* The follow routes write only the follows, the message and like routes   *)
(* only the messages and likes, the profile route only the users'          *)
(* attributes, and none of them reads what another group writes.  A        *)
(* behaviour therefore exercises the account routes (signup, login,        *)
(* logout, delete user) together with one of these groups, chosen          *)
(* initially (scope), so that the state space is the sum and not the       *)
(* product of the groups: "account" the profile's username and email with  *)
(* two passwords, "profile" its images and bio, "follows" the follow       *)
(* routes, "messages" the message and like routes.                         *)
(*                                                                         *)
(* The homepage reads the follows and the messages together and writes     *)
(* nothing.  It is exercised on its own (SpecFeed, scope "feed") on stores *)
(* as seed.py loads them, large enough for the limit of its query to cut.  *)
(***************************************************************************)
EXTENDS Integers, FiniteSets, Sequences, TLC

\* ---------------------------------------------------------------- bounds
MaxUsers == 2       \* user ids ever allocated
MaxMsgs == 2        \* message ids ever allocated
MaxFeedMsgs == 112  \* messages of the largest seeded store

\* ------------------------------------------------------- input alphabets
Usernames == {"u1", "u2"}
Emails == {"e1", "e2"}
Passwords == {"p1", "p2"}
Texts == {"", "hi"}
Images == {"", "img"}
Paths == {"/messages/1"}
Methods == {"GET", "POST"}
Scopes == {"account", "profile", "follows", "messages"}

None == 0
Null == "null"      \* None where a text is expected
CURR_USER_KEY == "curr_user"
FEED_LIMIT == 100   \* homepage: .limit(100)
DEFAULT_IMAGE == "default-pic"
DEFAULT_HEADER == "default-header"

UserIds == 1..MaxUsers
MsgIds == 1..MaxMsgs
Sessions == {"a", "b"}

VARIABLES
    users,        \* id -> [username, email, password, image_url,
                  \*        header_image_url, bio]           (table users)
    messages,     \* id -> [text, user_id, timestamp]       (table messages)
    follows,      \* set of <<follower id, followed id>>    (table follows)
    likes,        \* set of <<user id, message id>>         (table likes)
    nextUserId,   \* the users.id sequence
    nextMsgId,    \* the messages.id sequence
    session,      \* session -> (key -> user id); no key: not logged in
    pending,      \* session -> the uncommitted user of a signup in flight
    resp,         \* the last request handled and the response to it
    scope         \* the group of routes this behaviour exercises

db == <<users, messages, follows, likes, nextUserId, nextMsgId>>
vars == <<users, messages, follows, likes, nextUserId, nextMsgId,
          session, pending, resp, scope>>

\* ------------------------------------------------------------- the store
\* bcrypt: a one-way hash of the plaintext, and its verification.
generate_password_hash(p) == <<"bcrypt", p>>
check_password_hash(h, p) == h = generate_password_hash(p)

\* The unique constraints on users.username and users.email, as the store
\* checks them when a row is inserted or updated (id: the row's own id).
IntegrityError(id, username, email) ==
    \E o \in DOMAIN users :
        /\ o # id
        /\ (users[o].username = username \/ users[o].email = email)

\* User.authenticate: the user with that username whose hash verifies.
authenticate(username, password) ==
    LET found == {i \in DOMAIN users : users[i].username = username}
    IN  IF \E i \in found : check_password_hash(users[i].password, password)
        THEN CHOOSE i \in found :
                 check_password_hash(users[i].password, password)
        ELSE None

\* User.signup: the new, uncommitted user, its password hashed.  An image
\* URL of None (Null), and the header image, get the columns' defaults; the
\* bio is empty.
User_signup(username, email, password, image_url) ==
    [username |-> username, email |-> email,
     password |-> generate_password_hash(password),
     image_url |-> IF image_url = Null THEN DEFAULT_IMAGE ELSE image_url,
     header_image_url |-> DEFAULT_HEADER,
     bio |-> ""]

\* Removing rows of a function-valued table.
Without(table, ids) == [i \in DOMAIN table \ ids |-> table[i]]

\* db.session.delete(user) and commit: the user's row goes, and with it the
\* user's messages, the follows from and to the user, and the likes by the
\* user and of the user's messages.
MessagesOf(u) == {m \in DOMAIN messages : messages[m].user_id = u}

db_delete_user(u) ==
    /\ users' = Without(users, {u})
    /\ messages' = Without(messages, MessagesOf(u))
    /\ follows' = {f \in follows : f[1] # u /\ f[2] # u}
    /\ likes' = {l \in likes : l[1] # u /\ l[2] \notin MessagesOf(u)}

\* db.session.delete(msg) and commit: the message goes, and its likes.
db_delete_message(m) ==
    /\ messages' = Without(messages, {m})
    /\ likes' = {l \in likes : l[2] # m}

\* ----------------------------------------------------------- the session
\* add_user_to_g: the current user of a request on session s.
g_user(s) ==
    IF CURR_USER_KEY \in DOMAIN session[s]
    THEN IF session[s][CURR_USER_KEY] \in DOMAIN users
         THEN session[s][CURR_USER_KEY]
         ELSE None
    ELSE None

\* do_login keeping the current user in one place for every session.
do_login_global(s, id) ==
    session' = [t \in Sessions |-> (CURR_USER_KEY :> id)]

do_login(s, id) ==
    session' = [session EXCEPT ![s] = (CURR_USER_KEY :> id)]

do_logout(s) ==
    session' = [session EXCEPT ![s] = << >>]

\* The request just handled and its response.
Respond(op, s, ok, target, text, status, loc, locid, msg) ==
    resp' = [op |-> op, sess |-> s, ok |-> ok,
             target |-> target, text |-> text, status |-> status,
             loc |-> loc, locid |-> locid, flash |-> msg]

Init ==
    /\ scope \in Scopes
    /\ users = << >>
    /\ messages = << >>
    /\ follows = {}
    /\ likes = {}
    /\ nextUserId = 1
    /\ nextMsgId = 1
    /\ session = [s \in Sessions |-> << >>]
    /\ pending = [s \in Sessions |-> << >>]
    /\ resp = [op |-> "init", sess |-> "", ok |-> TRUE,
               target |-> None, text |-> "", status |-> None,
               loc |-> "", locid |-> None, flash |-> ""]

\* ------------------------------------------------ signup / login / logout
\* signup, up to User.signup(...): the form is validated and the new user is
\* added to the request's transaction.  valid = FALSE is a GET or a form that
\* does not validate.
signup(s, valid, username, email, password, image_url) ==
    /\ pending[s] = << >>
    /\ IF valid
       THEN /\ nextUserId + Cardinality({t \in Sessions : pending[t] # << >>})
                 <= MaxUsers
            /\ pending' = [pending EXCEPT ![s] =
                   User_signup(username, email, password,
                       IF image_url # "" THEN image_url ELSE Null)]
            /\ Respond("signup", s, valid, None, "", None, "", None, "")
       ELSE /\ Respond("signup", s, valid, None, "", 200, "", None, "")
            /\ UNCHANGED pending
    /\ UNCHANGED <<db, session, scope>>

\* signup whose except branch does not return: it falls through to
\* do_login(user), the user never having got an id.
signup_commit_fallthrough(s) ==
    /\ pending[s] # << >>
    /\ UNCHANGED scope
    /\ pending' = [pending EXCEPT ![s] = << >>]
    /\ IF IntegrityError(None, pending[s].username, pending[s].email)
       THEN /\ do_login(s, None)
            /\ Respond("signup", s, TRUE, None, "",
                       302, "/", None, "Username already taken")
            /\ UNCHANGED db
       ELSE /\ users' = users @@ (nextUserId :> pending[s])
            /\ nextUserId' = nextUserId + 1
            /\ do_login(s, nextUserId)
            /\ Respond("signup", s, TRUE, nextUserId, "",
                       302, "/", None, "")
            /\ UNCHANGED <<messages, follows, likes, nextMsgId>>

\* signup, from db.session.commit() on.
signup_commit(s) ==
    /\ pending[s] # << >>
    /\ UNCHANGED scope
    /\ pending' = [pending EXCEPT ![s] = << >>]
    /\ IF IntegrityError(None, pending[s].username, pending[s].email)
       THEN /\ Respond("signup", s, TRUE, None, "",
                       200, "", None, "Username already taken")
            /\ UNCHANGED <<db, session>>
       ELSE /\ users' = users @@ (nextUserId :> pending[s])
            /\ nextUserId' = nextUserId + 1
            /\ do_login(s, nextUserId)
            /\ Respond("signup", s, TRUE, nextUserId, "",
                       302, "/", None, "")
            /\ UNCHANGED <<messages, follows, likes, nextMsgId>>

\* login telling an unknown username from a wrong password.
login_leaky(s, valid, username, password) ==
    LET user == authenticate(username, password)
    IN  /\ IF valid /\ user # None
           THEN /\ do_login(s, user)
                /\ Respond("login", s, valid, user, username, 302, "/",
                           None, "Hello")
           ELSE /\ Respond("login", s, valid, None, username, 200, "",
                           None,
                           IF ~valid THEN ""
                           ELSE IF \E i \in DOMAIN users :
                                      users[i].username = username
                           THEN "Invalid password."
                           ELSE "Invalid username.")
                /\ UNCHANGED session
        /\ UNCHANGED <<db, pending, scope>>

login(s, valid, username, password) ==
    LET user == authenticate(username, password)
    IN  /\ IF valid /\ user # None
           THEN /\ do_login(s, user)
                /\ Respond("login", s, valid, user, username, 302, "/",
                           None,
                           "Hello")
           ELSE /\ Respond("login", s, valid, None, username, 200, "",
                           None,
                           IF valid THEN "Invalid credentials." ELSE "")
                /\ UNCHANGED session
        /\ UNCHANGED <<db, pending, scope>>

\* logout without its guard form check.
logout_unguarded(s, ok) ==
    /\ do_logout(s)
    /\ Respond("logout", s, ok, None, "", 302, "/", None,
               "Successfully logged out!")
    /\ UNCHANGED <<db, pending, scope>>

logout(s, ok) ==
    /\ IF ~ok
       THEN /\ Respond("logout", s, ok, None, "", 401, "", None, "")
            /\ UNCHANGED session
       ELSE /\ do_logout(s)
            /\ Respond("logout", s, ok, None, "", 302, "/", None,
                       "Successfully logged out!")
    /\ UNCHANGED <<db, pending, scope>>

\* ------------------------------------------------------------ user routes
add_follow(s, ok, follow_id) ==
    LET u == g_user(s)
    IN  /\ IF ~ok
           THEN /\ Respond("add_follow", s, ok, None, "", 401, "", None, "")
                /\ UNCHANGED follows
           ELSE IF u = None
           THEN /\ Respond("add_follow", s, ok, follow_id, "", 302, "/", None,
                           "Access unauthorized.")
                /\ UNCHANGED follows
           ELSE IF follow_id \notin DOMAIN users
           THEN /\ Respond("add_follow", s, ok, follow_id, "", 404, "", None, "")
                /\ UNCHANGED follows
           ELSE /\ follows' = follows \cup {<<u, follow_id>>}
                /\ Respond("add_follow", s, ok, follow_id, "", 302,
                           "/users/following", u, "")
        /\ UNCHANGED <<users, messages, likes, nextUserId, nextMsgId,
                       session, pending, scope>>

\* g.user.following.remove(x) is list.remove: it raises ValueError, and the
\* request ends in a server error, when x (None for an unknown id) is not in
\* the list.
stop_following(s, ok, follow_id) ==
    LET u == g_user(s)
    IN  /\ IF ~ok
           THEN /\ Respond("stop_following", s, ok, None, "", 401, "",
                           None, "")
                /\ UNCHANGED follows
           ELSE IF u = None
           THEN /\ Respond("stop_following", s, ok, follow_id, "", 302, "/",
                           None, "Access unauthorized.")
                /\ UNCHANGED follows
           ELSE IF <<u, follow_id>> \notin follows
           THEN /\ Respond("stop_following", s, ok, follow_id, "", 500, "",
                           None, "")
                /\ UNCHANGED follows
           ELSE /\ follows' = follows \ {<<u, follow_id>>}
                /\ Respond("stop_following", s, ok, follow_id, "", 302,
                           "/users/following", u, "")
        /\ UNCHANGED <<users, messages, likes, nextUserId, nextMsgId,
                       session, pending, scope>>

\* profile saving what is submitted without verifying the password.
profile_unverified(s, valid, username, email, password, image_url, header_image_url, bio) ==
    LET u == g_user(s)
    IN  /\ IF u = None
           THEN /\ Respond("profile", s, valid, None, "", 401, "", None, "")
                /\ UNCHANGED users
           ELSE IF ~valid
           THEN /\ Respond("profile", s, valid, u, "", 200, "", None, "")
                /\ UNCHANGED users
           ELSE IF IntegrityError(u, username, email)
           THEN /\ Respond("profile", s, valid, u, "", 500, "", None, "")
                /\ UNCHANGED users
           ELSE /\ users' = [users EXCEPT
                       ![u].username = username,
                       ![u].email = email,
                       ![u].image_url =
                           IF image_url # "" THEN image_url
                           ELSE DEFAULT_IMAGE,
                       ![u].header_image_url =
                           IF header_image_url # "" THEN header_image_url
                           ELSE DEFAULT_HEADER,
                       ![u].bio = bio]
                /\ Respond("profile", s, valid, u, "", 302, "/users", u, "")
        /\ UNCHANGED <<messages, follows, likes, nextUserId, nextMsgId,
                       session, pending, scope>>

\* profile: valid = FALSE is a GET or a form that does not validate.  The
\* commit's IntegrityError is not caught: the request ends in a server error
\* and the transaction is rolled back.
profile(s, valid, username, email, password, image_url, header_image_url, bio) ==
    LET u == g_user(s)
    IN  /\ IF u = None
           THEN /\ Respond("profile", s, valid, None, "", 401, "", None, "")
                /\ UNCHANGED users
           ELSE IF ~valid
           THEN /\ Respond("profile", s, valid, u, "", 200, "", None, "")
                /\ UNCHANGED users
           ELSE IF authenticate(users[u].username, password) = None
           THEN /\ Respond("profile", s, valid, u, "", 302, "/", None,
                           "Incorrect password.")
                /\ UNCHANGED users
           ELSE IF IntegrityError(u, username, email)
           THEN /\ Respond("profile", s, valid, u, "", 500, "", None, "")
                /\ UNCHANGED users
           ELSE /\ users' = [users EXCEPT
                       ![u].username = username,
                       ![u].email = email,
                       ![u].image_url =
                           IF image_url # "" THEN image_url
                           ELSE DEFAULT_IMAGE,
                       ![u].header_image_url =
                           IF header_image_url # "" THEN header_image_url
                           ELSE DEFAULT_HEADER,
                       ![u].bio = bio]
                /\ Respond("profile", s, valid, u, "", 302, "/users", u, "")
        /\ UNCHANGED <<messages, follows, likes, nextUserId, nextMsgId,
                       session, pending, scope>>

\* delete_user deleting the user's row alone, what refers to it staying.
delete_user_orphaning(s, ok) ==
    LET u == g_user(s)
    IN  /\ IF ~ok
           THEN /\ Respond("delete_user", s, ok, None, "", 401, "", None, "")
                /\ UNCHANGED <<users, messages, follows, likes, session>>
           ELSE IF u = None
           THEN /\ Respond("delete_user", s, ok, None, "", 302, "/", None,
                           "Access unauthorized.")
                /\ UNCHANGED <<users, messages, follows, likes, session>>
           ELSE /\ do_logout(s)
                /\ users' = Without(users, {u})
                /\ UNCHANGED <<messages, follows, likes>>
                /\ Respond("delete_user", s, ok, u, "", 302, "/signup", None,
                           "")
        /\ UNCHANGED <<nextUserId, nextMsgId, pending, scope>>

delete_user(s, ok) ==
    LET u == g_user(s)
    IN  /\ IF ~ok
           THEN /\ Respond("delete_user", s, ok, None, "", 401, "", None, "")
                /\ UNCHANGED <<users, messages, follows, likes, session>>
           ELSE IF u = None
           THEN /\ Respond("delete_user", s, ok, None, "", 302, "/", None,
                           "Access unauthorized.")
                /\ UNCHANGED <<users, messages, follows, likes, session>>
           ELSE /\ do_logout(s)
                /\ db_delete_user(u)
                /\ Respond("delete_user", s, ok, u, "", 302, "/signup", None,
                           "")
        /\ UNCHANGED <<nextUserId, nextMsgId, pending, scope>>

\* --------------------------------------------------------- message routes
\* Message.timestamp defaults to the clock read when the message is created.
\* The clock ticks between any two creations: it is read off the number of
\* messages created so far.
utcnow == nextMsgId

\* MessageForm.validate_on_submit(): a POST whose text is not empty.
MessageFormValid(method, text) == method = "POST" /\ text # ""

\* messages_add without its check that somebody is logged in.
messages_add_anonymous(s, method, text) ==
    LET u == g_user(s)
    IN  /\ IF MessageFormValid(method, text)
           THEN /\ nextMsgId <= MaxMsgs
                /\ messages' = messages @@
                       (nextMsgId :> [text |-> text, user_id |-> u,
                                      timestamp |-> utcnow])
                /\ nextMsgId' = nextMsgId + 1
                /\ Respond("messages_add", s, method = "POST", nextMsgId, text,
                           302, "/users", u, "")
           ELSE /\ Respond("messages_add", s, method = "POST", None, text, 200,
                           "", None, "")
                /\ UNCHANGED <<messages, nextMsgId>>
        /\ UNCHANGED <<users, follows, likes, nextUserId, session, pending,
                       scope>>

\* messages_add storing whatever is posted, the form not validated.
messages_add_unvalidated(s, method, text) ==
    LET u == g_user(s)
    IN  /\ IF u = None
           THEN /\ Respond("messages_add", s, method = "POST", None, text, 302,
                           "/", None, "Access unauthorized.")
                /\ UNCHANGED <<messages, nextMsgId>>
           ELSE IF method = "POST"
           THEN /\ nextMsgId <= MaxMsgs
                /\ messages' = messages @@
                       (nextMsgId :> [text |-> text, user_id |-> u,
                                      timestamp |-> utcnow])
                /\ nextMsgId' = nextMsgId + 1
                /\ Respond("messages_add", s, method = "POST", nextMsgId, text,
                           302, "/users", u, "")
           ELSE /\ Respond("messages_add", s, method = "POST", None, text, 200,
                           "", None, "")
                /\ UNCHANGED <<messages, nextMsgId>>
        /\ UNCHANGED <<users, follows, likes, nextUserId, session, pending,
                       scope>>

\* messages_add taking the poster from the session's key, without looking
\* the user up.
messages_add_by_key(s, method, text) ==
    LET u == IF CURR_USER_KEY \in DOMAIN session[s]
             THEN session[s][CURR_USER_KEY] ELSE None
    IN  /\ IF u = None
           THEN /\ Respond("messages_add", s, method = "POST", None, text, 302,
                           "/", None, "Access unauthorized.")
                /\ UNCHANGED <<messages, nextMsgId>>
           ELSE IF MessageFormValid(method, text)
           THEN /\ nextMsgId <= MaxMsgs
                /\ messages' = messages @@
                       (nextMsgId :> [text |-> text, user_id |-> u,
                                      timestamp |-> utcnow])
                /\ nextMsgId' = nextMsgId + 1
                /\ Respond("messages_add", s, method = "POST", nextMsgId, text,
                           302, "/users", u, "")
           ELSE /\ Respond("messages_add", s, method = "POST", None, text, 200,
                           "", None, "")
                /\ UNCHANGED <<messages, nextMsgId>>
        /\ UNCHANGED <<users, follows, likes, nextUserId, session, pending,
                       scope>>

messages_add(s, method, text) ==
    LET u == g_user(s)
    IN  /\ IF u = None
           THEN /\ Respond("messages_add", s, method = "POST", None, text, 302,
                           "/", None, "Access unauthorized.")
                /\ UNCHANGED <<messages, nextMsgId>>
           ELSE IF MessageFormValid(method, text)
           THEN /\ nextMsgId <= MaxMsgs
                /\ messages' = messages @@
                       (nextMsgId :> [text |-> text, user_id |-> u,
                                      timestamp |-> utcnow])
                /\ nextMsgId' = nextMsgId + 1
                /\ Respond("messages_add", s, method = "POST", nextMsgId, text,
                           302, "/users", u, "")
           ELSE /\ Respond("messages_add", s, method = "POST", None, text, 200,
                           "", None, "")
                /\ UNCHANGED <<messages, nextMsgId>>
        /\ UNCHANGED <<users, follows, likes, nextUserId, session, pending,
                       scope>>

messages_show(s, message_id) ==
    /\ IF message_id \notin DOMAIN messages
       THEN Respond("messages_show", s, TRUE, message_id, "", 404, "", None, "")
       ELSE Respond("messages_show", s, TRUE, message_id, "", 200, "", None, "")
    /\ UNCHANGED <<db, session, pending, scope>>

\* messages_destroy without its ownership check.
messages_destroy_any(s, ok, message_id) ==
    LET u == g_user(s)
    IN  /\ IF ~ok
           THEN /\ Respond("messages_destroy", s, ok, None, "", 401, "",
                           None, "")
                /\ UNCHANGED <<messages, likes>>
           ELSE IF u = None
           THEN /\ Respond("messages_destroy", s, ok, message_id, "", 302, "/",
                           None, "Access unauthorized.")
                /\ UNCHANGED <<messages, likes>>
           ELSE IF message_id \notin DOMAIN messages
           THEN /\ Respond("messages_destroy", s, ok, message_id, "", 404, "",
                           None, "")
                /\ UNCHANGED <<messages, likes>>
           ELSE /\ db_delete_message(message_id)
                /\ Respond("messages_destroy", s, ok, message_id, "", 302,
                           "/users", u, "")
        /\ UNCHANGED <<users, follows, nextUserId, nextMsgId, session,
                       pending, scope>>

\* messages_destroy looking the message up with get, not get_or_404: the
\* ownership check then fails on None with a server error.
messages_destroy_get(s, ok, message_id) ==
    LET u == g_user(s)
    IN  /\ IF ~ok
           THEN /\ Respond("messages_destroy", s, ok, None, "", 401, "",
                           None, "")
                /\ UNCHANGED <<messages, likes>>
           ELSE IF u = None
           THEN /\ Respond("messages_destroy", s, ok, message_id, "", 302, "/",
                           None, "Access unauthorized.")
                /\ UNCHANGED <<messages, likes>>
           ELSE IF message_id \notin DOMAIN messages
           THEN /\ Respond("messages_destroy", s, ok, message_id, "", 500, "",
                           None, "")
                /\ UNCHANGED <<messages, likes>>
           ELSE IF messages[message_id].user_id # u
           THEN /\ Respond("messages_destroy", s, ok, message_id, "", 401, "",
                           None, "")
                /\ UNCHANGED <<messages, likes>>
           ELSE /\ db_delete_message(message_id)
                /\ Respond("messages_destroy", s, ok, message_id, "", 302,
                           "/users", u, "")
        /\ UNCHANGED <<users, follows, nextUserId, nextMsgId, session,
                       pending, scope>>

messages_destroy(s, ok, message_id) ==
    LET u == g_user(s)
    IN  /\ IF ~ok
           THEN /\ Respond("messages_destroy", s, ok, None, "", 401, "",
                           None, "")
                /\ UNCHANGED <<messages, likes>>
           ELSE IF u = None
           THEN /\ Respond("messages_destroy", s, ok, message_id, "", 302, "/",
                           None, "Access unauthorized.")
                /\ UNCHANGED <<messages, likes>>
           ELSE IF message_id \notin DOMAIN messages
           THEN /\ Respond("messages_destroy", s, ok, message_id, "", 404, "",
                           None, "")
                /\ UNCHANGED <<messages, likes>>
           ELSE IF messages[message_id].user_id # u
           THEN /\ Respond("messages_destroy", s, ok, message_id, "", 401, "",
                           None, "")
                /\ UNCHANGED <<messages, likes>>
           ELSE /\ db_delete_message(message_id)
                /\ Respond("messages_destroy", s, ok, message_id, "", 302,
                           "/users", u, "")
        /\ UNCHANGED <<users, follows, nextUserId, nextMsgId, session,
                       pending, scope>>

\* like_message without its check of whose message it is.
like_message_own(s, ok, message_id, callback) ==
    LET u == g_user(s)
    IN  /\ IF ~ok
           THEN /\ Respond("like_message", s, ok, None, "", 401, "",
                           None, "")
                /\ UNCHANGED likes
           ELSE IF u = None
           THEN /\ Respond("like_message", s, ok, message_id, "", 302, "/",
                           None, "Access unauthorized.")
                /\ UNCHANGED likes
           ELSE IF message_id \notin DOMAIN messages
           THEN /\ Respond("like_message", s, ok, message_id, "", 404, "",
                           None, "")
                /\ UNCHANGED likes
           ELSE /\ likes' = likes \cup {<<u, message_id>>}
                /\ Respond("like_message", s, ok, message_id, "", 302,
                           callback, None, "")
        /\ UNCHANGED <<users, messages, follows, nextUserId, nextMsgId,
                       session, pending, scope>>

like_message(s, ok, message_id, callback) ==
    LET u == g_user(s)
    IN  /\ IF ~ok
           THEN /\ Respond("like_message", s, ok, None, "", 401, "",
                           None, "")
                /\ UNCHANGED likes
           ELSE IF u = None
           THEN /\ Respond("like_message", s, ok, message_id, "", 302, "/",
                           None, "Access unauthorized.")
                /\ UNCHANGED likes
           ELSE IF message_id \notin DOMAIN messages
           THEN /\ Respond("like_message", s, ok, message_id, "", 404, "",
                           None, "")
                /\ UNCHANGED likes
           ELSE IF messages[message_id].user_id = u
           THEN /\ Respond("like_message", s, ok, message_id, "", 302,
                           callback, None, "You can't like your own warbles!")
                /\ UNCHANGED likes
           ELSE /\ likes' = likes \cup {<<u, message_id>>}
                /\ Respond("like_message", s, ok, message_id, "", 302,
                           callback, None, "")
        /\ UNCHANGED <<users, messages, follows, nextUserId, nextMsgId,
                       session, pending, scope>>

unlike_message(s, ok, message_id, callback) ==
    LET u == g_user(s)
    IN  /\ IF ~ok
           THEN /\ Respond("unlike_message", s, ok, None, "", 401, "",
                           None, "")
                /\ UNCHANGED likes
           ELSE IF u = None
           THEN /\ Respond("unlike_message", s, ok, message_id, "", 302, "/",
                           None, "Access unauthorized.")
                /\ UNCHANGED likes
           ELSE /\ likes' = likes \ {<<u, message_id>>}
                /\ Respond("unlike_message", s, ok, message_id, "", 302,
                           callback, None, "")
        /\ UNCHANGED <<users, messages, follows, nextUserId, nextMsgId,
                       session, pending, scope>>

\* --------------------------------------------------------------- homepage
\* g.user.following: the ids of the users that u follows.
following(u) == {f[2] : f \in {g \in follows : g[1] = u}}

Min(a, b) == IF a <= b THEN a ELSE b

\* The rows of the messages table, as a sequence of ids.
MessageRows ==
    SelectSeq([i \in 1..(nextMsgId - 1) |-> i],
              LAMBDA m : m \in DOMAIN messages)

\* The query of the docstring: the messages "of followed_users", the current
\* user's own left out.
Feed_followed_only(u) ==
    LET rows == SelectSeq(MessageRows,
                    LAMBDA m : messages[m].user_id \in following(u))
        ordered == SortSeq(rows,
                    LAMBDA a, b : messages[a].timestamp > messages[b].timestamp)
    IN  SubSeq(ordered, 1, Min(FEED_LIMIT, Len(ordered)))

\* The homepage query: filter(or_(user_id == g.user.id, user_id.in_(ids of
\* g.user.following))).order_by(timestamp.desc()).limit(100).all()
Feed(u) ==
    LET rows == SelectSeq(MessageRows,
                    LAMBDA m : \/ messages[m].user_id = u
                               \/ messages[m].user_id \in following(u))
        ordered == SortSeq(rows,
                    LAMBDA a, b : messages[a].timestamp > messages[b].timestamp)
    IN  SubSeq(ordered, 1, Min(FEED_LIMIT, Len(ordered)))

\* homepage: the feed for a logged-in user, and for anybody else the login
\* form filled in with the demo account.
homepage(s) ==
    LET u == g_user(s)
    IN  /\ resp' = [op |-> "homepage", sess |-> s, ok |-> TRUE,
                    target |-> u, text |-> IF u = None THEN "demo" ELSE "",
                    status |-> 200, loc |-> "", locid |-> None, flash |-> "",
                    messages |-> IF u = None THEN << >> ELSE Feed(u)]
        /\ UNCHANGED <<db, session, pending, scope>>

\* ------------------------------------------------------------ the system
\* Users sign up with either password where the account routes are
\* exercised, and with one password elsewhere; with or without an image
\* where the profile's images and bio are exercised, and without elsewhere.
SignupPasswords == IF scope = "account" THEN Passwords ELSE {"p1"}
SignupImages == IF scope = "profile" THEN Images ELSE {""}

\* The image, header image and bio fields of the profile forms submitted:
\* all blank, or (where they are exercised) all filled in.
BlankProfile == [image_url |-> "", header_image_url |-> "", bio |-> ""]
FilledProfile == [image_url |-> "img", header_image_url |-> "hdr",
                  bio |-> "bio"]
ProfileForms ==
    IF scope = "profile" THEN {BlankProfile, FilledProfile}
    ELSE {BlankProfile}

Next ==
    \/ \E s \in Sessions, valid \in BOOLEAN, u \in Usernames, e \in Emails,
          p \in SignupPasswords, i \in SignupImages :
          signup(s, valid, u, e, p, i)
    \/ \E s \in Sessions : signup_commit(s)
    \/ \E s \in Sessions, valid \in BOOLEAN, u \in Usernames, p \in Passwords :
          login(s, valid, u, p)
    \/ \E s \in Sessions, ok \in BOOLEAN : logout(s, ok)
    \/ \E s \in Sessions, ok \in BOOLEAN : delete_user(s, ok)
    \/ /\ scope \in {"account", "profile"}
       /\ \E s \in Sessions, valid \in BOOLEAN, u \in Usernames, e \in Emails,
             p \in Passwords, f \in ProfileForms :
             profile(s, valid, u, e, p,
                     f.image_url, f.header_image_url, f.bio)
    \/ /\ scope = "follows"
       /\ \E s \in Sessions, ok \in BOOLEAN, id \in UserIds :
             add_follow(s, ok, id)
    \/ /\ scope = "follows"
       /\ \E s \in Sessions, ok \in BOOLEAN, id \in UserIds :
             stop_following(s, ok, id)
    \/ /\ scope = "messages"
       /\ \E s \in Sessions, m \in Methods, t \in Texts : messages_add(s, m, t)
    \/ /\ scope = "messages"
       /\ \E s \in Sessions, id \in MsgIds : messages_show(s, id)
    \/ /\ scope = "messages"
       /\ \E s \in Sessions, ok \in BOOLEAN, id \in MsgIds :
             messages_destroy(s, ok, id)
    \/ /\ scope = "messages"
       /\ \E s \in Sessions, ok \in BOOLEAN, id \in MsgIds, cb \in Paths :
             like_message(s, ok, id, cb)
    \/ /\ scope = "messages"
       /\ \E s \in Sessions, ok \in BOOLEAN, id \in MsgIds, cb \in Paths :
             unlike_message(s, ok, id, cb)

Spec == Init /\ [][Next]_vars

\* ------------------------------------------------- the feed on seeded data
\* seed.py: the store is loaded from CSV files, whose rows carry their own
\* ids, owners and timestamps, and a user "test" is added with follows drawn
\* at random.  The homepage is then requested on stores of every size around
\* the limit of the query.
SeedUserIds == {1, 2, 3}

SeedUsers ==
    (1 :> User_signup("u1", "e1", "p1", Null)) @@
    (2 :> User_signup("u2", "e2", "p1", Null)) @@
    (3 :> User_signup("test", "test@fd.ew", "p1", Null))

FeedSizes ==
    {0, 3, FEED_LIMIT - 1, FEED_LIMIT, FEED_LIMIT + 1, MaxFeedMsgs}

\* Who owns the seeded message i: user 1 alone; the three users in turn; or
\* users 1 and 2 in turn with every tenth message of user 3.
SeedOwners == {"one", "turns", "tenth"}

SeedOwner(pattern, i) ==
    IF pattern = "one" THEN 1
    ELSE IF pattern = "turns" THEN 1 + (i % 3)
    ELSE IF i % 10 = 0 THEN 3 ELSE 1 + (i % 2)

\* When the seeded message i was created: in the order of the ids, or in an
\* order that has nothing to do with the ids (no two at the same time).
SeedTimes == {"by id", "shuffled"}

SeedTime(pattern, i) ==
    IF pattern = "by id" THEN i ELSE (i * 37) % 127

\* The follows of a seeded store: at most two edges, a user's follow of
\* themselves among them.
SeedFollows ==
    {F \in SUBSET (SeedUserIds \X SeedUserIds) : Cardinality(F) <= 2}

InitFeed ==
    /\ scope = "feed"
    /\ users = SeedUsers
    /\ nextUserId = 4
    /\ \E n \in FeedSizes, o \in SeedOwners, c \in SeedTimes :
          /\ messages = [i \in 1..n |->
                            [text |-> "hi", user_id |-> SeedOwner(o, i),
                             timestamp |-> SeedTime(c, i)]]
          /\ nextMsgId = n + 1
    /\ follows \in SeedFollows
    /\ likes = {}
    /\ \E u \in SeedUserIds \cup {None} :
          session = [s \in Sessions |->
                        IF s = "a" /\ u # None
                        THEN (CURR_USER_KEY :> u) ELSE << >>]
    /\ pending = [s \in Sessions |-> << >>]
    /\ resp = [op |-> "init", sess |-> "", ok |-> TRUE,
               target |-> None, text |-> "", status |-> None,
               loc |-> "", locid |-> None, flash |-> ""]

NextFeed == \E s \in Sessions : homepage(s)

SpecFeed == InitFeed /\ [][NextFeed]_vars

\* ------------------------------------------------------------- properties
store == <<users, messages, follows, likes>>

\* The routes that validate the guard form (CSRFProtectForm) first.
GuardedRoutes ==
    {"logout", "add_follow", "stop_following", "delete_user",
     "messages_destroy", "like_message", "unlike_message"}

\* C1: a follow, unfollow, delete-message, delete-user, like, unlike or
\* logout request whose guard form does not validate is answered with 401,
\* whoever is logged in, and leaves the store and the session unchanged.
C1_GuardFormRequired ==
    [][\A s \in Sessions, id \in UserIds \cup MsgIds, cb \in Paths :
          (/\ resp'.op \in GuardedRoutes
           /\ ~resp'.ok
           /\ \/ logout(s, FALSE)
              \/ add_follow(s, FALSE, id)
              \/ stop_following(s, FALSE, id)
              \/ delete_user(s, FALSE)
              \/ messages_destroy(s, FALSE, id)
              \/ like_message(s, FALSE, id, cb)
              \/ unlike_message(s, FALSE, id, cb))
          => (resp'.status = 401 /\ UNCHANGED <<store, session>>)]_vars

\* A logged-in user's logout without a valid guard form was refused, with
\* messages in the store.
C1_Witness ==
    /\ resp.op = "logout"
    /\ ~resp.ok
    /\ resp.status = 401
    /\ g_user(resp.sess) # None
    /\ messages # << >>

\* C2: a delete-message request with a valid guard form from a logged-in
\* user who does not own the existing message is answered with 401 and the
\* message stays; and whenever a message leaves the store, the request that
\* removed it was made by its owner.
C2_OnlyOwnerDestroys ==
    [][/\ \A s \in Sessions, id \in MsgIds :
             (/\ resp'.op = "messages_destroy"
              /\ g_user(s) # None
              /\ id \in DOMAIN messages
              /\ messages[id].user_id # g_user(s)
              /\ messages_destroy(s, TRUE, id))
             => (/\ resp'.status = 401
                 /\ id \in DOMAIN messages'
                 /\ messages'[id] = messages[id])
       /\ \A m \in DOMAIN messages \ DOMAIN messages' :
             /\ resp'.op \in {"messages_destroy", "delete_user"}
             /\ g_user(resp'.sess) = messages[m].user_id]_vars

\* Somebody else's message was asked to be deleted, and is still there.
C2_Witness ==
    /\ resp.op = "messages_destroy"
    /\ resp.ok
    /\ resp.status = 401
    /\ resp.target \in DOMAIN messages
    /\ g_user(resp.sess) # None
    /\ messages[resp.target].user_id # g_user(resp.sess)

\* C3: with nobody logged in, a new-message request (GET or POST, any text)
\* and a delete-message request (valid guard form, existing message) are
\* answered with a 302 redirect and leave the messages as they were.
C3_AnonymousRedirected ==
    [][\A s \in Sessions, method \in Methods, text \in Texts, id \in MsgIds :
          /\ (/\ resp'.op = "messages_add"
              /\ g_user(s) = None
              /\ messages_add(s, method, text))
             => (resp'.status = 302 /\ messages' = messages)
          /\ (/\ resp'.op = "messages_destroy"
              /\ g_user(s) = None
              /\ id \in DOMAIN messages
              /\ messages_destroy(s, TRUE, id))
             => (resp'.status = 302 /\ messages' = messages)]_vars

\* An anonymous POST of a non-empty text was redirected, with messages in
\* the store.
C3_Witness ==
    /\ resp.op = "messages_add"
    /\ resp.ok
    /\ resp.text # ""
    /\ resp.status = 302
    /\ g_user(resp.sess) = None
    /\ messages # << >>

C5_UnknownMessage404 ==
    [][\A s \in Sessions, id \in MsgIds :
          /\ (/\ resp'.op = "messages_show"
              /\ id \notin DOMAIN messages
              /\ messages_show(s, id))
             => (resp'.status = 404 /\ UNCHANGED store)
          /\ (/\ resp'.op = "messages_destroy"
              /\ g_user(s) # None
              /\ id \notin DOMAIN messages
              /\ messages_destroy(s, TRUE, id))
             => (resp'.status = 404 /\ UNCHANGED store)]_vars

\* A logged-in user asked to delete a message that is not stored, other
\* messages being stored.
C5_Witness ==
    /\ resp.op = "messages_destroy"
    /\ resp.ok
    /\ resp.status = 404
    /\ g_user(resp.sess) # None
    /\ resp.target \notin DOMAIN messages
    /\ messages # << >>

\* No two stored users share a username or an email.
UniqueUsers ==
    \A a, b \in DOMAIN users :
        a # b => /\ users[a].username # users[b].username
                 /\ users[a].email # users[b].email

\* The new user of the signup in flight on s has a username or an email
\* that a stored user has.
Collides(s) ==
    \E o \in DOMAIN users :
        \/ users[o].username = pending[s].username
        \/ users[o].email = pending[s].email

\* C6: whatever the interleaving of signups, no two stored users share a
\* username or an email; a signup that reaches its commit when its username
\* or email is stored already fails with the uniqueness message, stores no
\* row and does not log its session in; a signup that reaches its commit
\* with neither stored commits its user and no other row.
C6_SignupUnique ==
    [][/\ UniqueUsers'
       /\ \A s \in Sessions :
             (resp'.op = "signup" /\ pending[s] # << >> /\ signup_commit(s))
             => IF Collides(s)
                THEN /\ resp'.status = 200
                     /\ resp'.flash = "Username already taken"
                     /\ UNCHANGED <<store, session>>
                ELSE /\ resp'.status = 302
                     /\ \E id \in DOMAIN users' \ DOMAIN users :
                           /\ DOMAIN users' = DOMAIN users \cup {id}
                           /\ users'[id] = pending[s]
                     /\ \A o \in DOMAIN users : users'[o] = users[o]]_vars

\* A signup lost the race: its username or email belongs to the user the
\* other session signed up as in the meantime, and its own session is not
\* logged in.
C6_Witness ==
    /\ resp.op = "signup"
    /\ resp.status = 200
    /\ resp.flash = "Username already taken"
    /\ session[resp.sess] = << >>
    /\ \E t \in Sessions \ {resp.sess} : g_user(t) # None
    /\ Cardinality(DOMAIN users) = 1

\* The user who logs in with these credentials: the stored user with that
\* username whose stored hash is the hash of that password.
Verifies(id, username, password) ==
    /\ id \in DOMAIN users
    /\ users[id].username = username
    /\ users[id].password = generate_password_hash(password)

\* C7 (as amended): a successful signup or login on a session leaves that
\* session's current-user key holding the id of the user who signed up or
\* logged in; the key of a session changes only through a request on that
\* session: a logout or a delete-user request removes it (and a logout with
\* a valid guard form always does), a later successful login or signup
\* replaces it; a session without the key has no current user.
C7_SessionBinding ==
    [][/\ \A s \in Sessions, u \in Usernames, p \in Passwords :
             (resp'.op = "login" /\ resp'.status = 302 /\ login(s, TRUE, u, p))
             => /\ CURR_USER_KEY \in DOMAIN session'[s]
                /\ Verifies(session'[s][CURR_USER_KEY], u, p)
       /\ \A s \in Sessions :
             (resp'.op = "signup" /\ resp'.status = 302 /\ signup_commit(s))
             => /\ CURR_USER_KEY \in DOMAIN session'[s]
                /\ session'[s][CURR_USER_KEY] \in DOMAIN users' \ DOMAIN users
                /\ users'[session'[s][CURR_USER_KEY]] = pending[s]
       /\ \A s \in Sessions :
             (resp'.op = "logout" /\ logout(s, TRUE))
             => CURR_USER_KEY \notin DOMAIN session'[s]
       /\ \A s \in Sessions :
             session'[s] # session[s]
             => /\ resp'.sess = s
                /\ resp'.status = 302
                /\ \/ /\ resp'.op \in {"logout", "delete_user"}
                      /\ CURR_USER_KEY \notin DOMAIN session'[s]
                   \/ /\ resp'.op \in {"login", "signup"}
                      /\ session'[s] = (CURR_USER_KEY :> resp'.target)
       /\ \A s \in Sessions :
             CURR_USER_KEY \notin DOMAIN session'[s] => g_user(s)' = None]_vars

\* A login succeeded on a session that another user was logged in on, while
\* the other session stays with that other user.
C7_Witness ==
    /\ resp.op = "login"
    /\ resp.status = 302
    /\ session[resp.sess] = (CURR_USER_KEY :> resp.target)
    /\ users[resp.target].username = resp.text
    /\ \E t \in Sessions \ {resp.sess} :
          /\ g_user(t) # None
          /\ g_user(t) # resp.target

\* C7 as stated: once a session holds a user's id, it keeps that value until
\* a logout on that session removes it (the do_logout of a delete-user
\* request counted as a logout too).
C7_KeptUntilLogout ==
    [][\A s \in Sessions :
          CURR_USER_KEY \in DOMAIN session[s]
          => \/ session'[s] = session[s]
             \/ /\ resp'.op \in {"logout", "delete_user"}
                /\ resp'.sess = s
                /\ CURR_USER_KEY \notin DOMAIN session'[s]]_vars

\* C8: a login whose credentials do not verify raises nothing, leaves every
\* session as it was, and answers the same (status 200, no redirect, the one
\* message "Invalid credentials.") whether no user has the username or the
\* password is wrong for the user who has it.
C8_LoginFailureUniform ==
    [][\A s \in Sessions, u \in Usernames, p \in Passwords :
          (/\ resp'.op = "login"
           /\ ~ \E id \in DOMAIN users : Verifies(id, u, p)
           /\ login(s, TRUE, u, p))
          => /\ UNCHANGED <<store, session>>
             /\ resp'.status = 200
             /\ resp'.loc = ""
             /\ resp'.flash = "Invalid credentials."]_vars

\* A login with the username of a stored user and a wrong password failed.
C8_Witness ==
    /\ resp.op = "login"
    /\ resp.ok
    /\ resp.status = 200
    /\ resp.flash = "Invalid credentials."
    /\ \E id \in DOMAIN users : users[id].username = resp.text
    /\ \E u \in Usernames : \A id \in DOMAIN users : users[id].username # u

\* C9: a follow of a user already followed, and an unfollow of a stored user
\* not followed, by a logged-in user with a valid guard form, are answered
\* with the redirect to the current user's following list and leave the
\* follows as they were.
C9_FollowIdempotent ==
    [][\A s \in Sessions, id \in UserIds :
          /\ (/\ resp'.op = "add_follow"
              /\ g_user(s) # None
              /\ <<g_user(s), id>> \in follows
              /\ add_follow(s, TRUE, id))
             => /\ resp'.status = 302
                /\ resp'.loc = "/users/following"
                /\ resp'.locid = g_user(s)
                /\ follows' = follows
          /\ (/\ resp'.op = "stop_following"
              /\ g_user(s) # None
              /\ id \in DOMAIN users
              /\ <<g_user(s), id>> \notin follows
              /\ stop_following(s, TRUE, id))
             => /\ resp'.status = 302
                /\ resp'.loc = "/users/following"
                /\ resp'.locid = g_user(s)
                /\ follows' = follows]_vars

\* No user likes a message of their own.
NoOwnLike ==
    \A l \in likes :
        l[2] \in DOMAIN messages => messages[l[2]].user_id # l[1]

\* C10: no Like-edge ever joins a user and a message of that user; a like
\* request with a valid guard form for one's own message is answered with a
\* 302 redirect and adds no Like-edge.
C10_NoOwnLike ==
    [][/\ NoOwnLike'
       /\ \A s \in Sessions, id \in MsgIds, cb \in Paths :
             (/\ resp'.op = "like_message"
              /\ g_user(s) # None
              /\ id \in DOMAIN messages
              /\ messages[id].user_id = g_user(s)
              /\ like_message(s, TRUE, id, cb))
             => (resp'.status = 302 /\ likes' = likes)]_vars

\* A user's like of their own message was turned away, another user's like
\* of it being stored.
C10_Witness ==
    /\ resp.op = "like_message"
    /\ resp.ok
    /\ resp.status = 302
    /\ resp.flash = "You can't like your own warbles!"
    /\ resp.target \in DOMAIN messages
    /\ messages[resp.target].user_id = g_user(resp.sess)
    /\ \E l \in likes : l[2] = resp.target

\* The messages that belong in the feed of u.
Qualifying(u) ==
    {m \in DOMAIN messages :
        \/ messages[m].user_id = u
        \/ <<u, messages[m].user_id>> \in follows}

\* page is the feed of u: only qualifying messages, newest first, as many as
\* qualify up to the limit, and every qualifying message left out is older
\* than every message shown.
IsFeed(u, page) ==
    LET shown == {page[i] : i \in 1..Len(page)}
    IN  /\ shown \subseteq Qualifying(u)
        /\ \A i \in 1..(Len(page) - 1) :
              messages[page[i]].timestamp > messages[page[i + 1]].timestamp
        /\ Len(page) = Min(Cardinality(Qualifying(u)), FEED_LIMIT)
        /\ \A m \in Qualifying(u) \ shown :
              messages[m].timestamp < messages[page[Len(page)]].timestamp

C12_WrongPasswordSavesNothing ==
    [][\A s \in Sessions, p \in Passwords :
          (/\ resp'.op = "profile"
           /\ resp'.sess = s
           /\ g_user(s) # None
           /\ ~check_password_hash(users[g_user(s)].password, p)
           /\ \E u \in Usernames, e \in Emails,
                 f \in {BlankProfile, FilledProfile} :
                 profile(s, TRUE, u, e, p,
                         f.image_url, f.header_image_url, f.bio))
          => /\ resp'.status = 302
             /\ resp'.loc = "/"
             /\ resp'.flash = "Incorrect password."
             /\ users' = users
             /\ UNCHANGED <<store, session>>]_vars

\* A profile form with a wrong password was turned away from a user whose
\* image, header image and bio had been set, another user being stored.
C12_Witness ==
    /\ resp.op = "profile"
    /\ resp.ok
    /\ resp.status = 302
    /\ resp.flash = "Incorrect password."
    /\ g_user(resp.sess) = resp.target
    /\ users[resp.target].image_url = "img"
    /\ users[resp.target].header_image_url = "hdr"
    /\ users[resp.target].bio = "bio"
    /\ Cardinality(DOMAIN users) = 2

\* Every message is owned by a stored user, every follow joins stored users,
\* every like joins a stored user and a stored message.
ReferentialIntegrity ==
    /\ \A m \in DOMAIN messages : messages[m].user_id \in DOMAIN users
    /\ \A f \in follows : f[1] \in DOMAIN users /\ f[2] \in DOMAIN users
    /\ \A l \in likes : l[1] \in DOMAIN users /\ l[2] \in DOMAIN messages

\* C13: after every step every message's owner is a stored user and every
\* follow and like refers to stored users and stored messages only; a
\* delete-user request that goes through removes the user, the user's
\* messages and every follow and like of or on them, and nothing else; a
\* delete-message request that goes through removes the message and its
\* likes, and nothing else.
C13_ReferentialIntegrity ==
    [][/\ ReferentialIntegrity'
       /\ \A s \in Sessions :
             (/\ resp'.op = "delete_user"
              /\ g_user(s) # None
              /\ delete_user(s, TRUE))
             => /\ DOMAIN users' = DOMAIN users \ {g_user(s)}
                /\ DOMAIN messages' =
                      {m \in DOMAIN messages :
                          messages[m].user_id # g_user(s)}
                /\ follows' =
                      {f \in follows : g_user(s) \notin {f[1], f[2]}}
                /\ likes' =
                      {l \in likes : /\ l[1] # g_user(s)
                                     /\ messages[l[2]].user_id # g_user(s)}
       /\ \A s \in Sessions, id \in MsgIds :
             (/\ resp'.op = "messages_destroy"
              /\ resp'.status = 302
              /\ g_user(s) # None
              /\ id \in DOMAIN messages
              /\ messages_destroy(s, TRUE, id))
             => /\ DOMAIN messages' = DOMAIN messages \ {id}
                /\ likes' = {l \in likes : l[2] # id}
                /\ UNCHANGED <<users, follows>>]_vars

\* A user who had posted a message deleted their account: the message went
\* with it, and another user and that user's message stay.
C13_Witness ==
    /\ resp.op = "delete_user"
    /\ resp.status = 302
    /\ resp.loc = "/signup"
    /\ resp.target \notin DOMAIN users
    /\ nextMsgId = 3
    /\ Cardinality(DOMAIN messages) = 1
    /\ Cardinality(DOMAIN users) = 1

\* C14: a commit that fails on a uniqueness violation is caught by its
\* handler: a signup whose username or email is taken, and a profile form
\* with the right password that changes the username or the email to one
\* another user has, are answered with a page or a redirect, never with a
\* server error, and nothing is committed.
C14_CommitFailureCaught ==
    [][/\ \A s \in Sessions :
             (/\ resp'.op = "signup"
              /\ pending[s] # << >>
              /\ Collides(s)
              /\ signup_commit(s))
             => (resp'.status \in {200, 302} /\ UNCHANGED store)
       /\ \A s \in Sessions, p \in Passwords :
             (/\ resp'.op = "profile"
              /\ resp'.sess = s
              /\ g_user(s) # None
              /\ check_password_hash(users[g_user(s)].password, p)
              /\ \E u \in Usernames, e \in Emails,
                    f \in {BlankProfile, FilledProfile} :
                    /\ IntegrityError(g_user(s), u, e)
                    /\ profile(s, TRUE, u, e, p,
                               f.image_url, f.header_image_url, f.bio))
             => (resp'.status \in {200, 302} /\ UNCHANGED store)]_vars

\* C15: a follow or unfollow request naming an id that is no stored user,
\* and a like or unlike request naming an id that is no stored message, from
\* a logged-in user with a valid guard form, is answered with 404 and leaves
\* the store and the session unchanged.
C15_UnknownTarget404 ==
    [][/\ \A s \in Sessions, id \in UserIds :
             (/\ resp'.op \in {"add_follow", "stop_following"}
              /\ g_user(s) # None
              /\ id \notin DOMAIN users
              /\ (add_follow(s, TRUE, id) \/ stop_following(s, TRUE, id)))
             => (resp'.status = 404 /\ UNCHANGED <<store, session>>)
       /\ \A s \in Sessions, id \in MsgIds, cb \in Paths :
             (/\ resp'.op \in {"like_message", "unlike_message"}
              /\ g_user(s) # None
              /\ id \notin DOMAIN messages
              /\ (like_message(s, TRUE, id, cb)
                    \/ unlike_message(s, TRUE, id, cb)))
             => (resp'.status = 404 /\ UNCHANGED <<store, session>>)]_vars

\* No follow joins a user to themselves.
NoSelfFollow == \A f \in follows : f[1] # f[2]

\* C16: no follow ever joins a user to themselves, and a follow request with
\* a valid guard form that names the current user's own id leaves the
\* follows as they were.
C16_NoSelfFollow ==
    [][/\ NoSelfFollow'
       /\ \A s \in Sessions :
             (/\ resp'.op = "add_follow"
              /\ g_user(s) # None
              /\ add_follow(s, TRUE, g_user(s)))
             => follows' = follows]_vars

\* The session holds the id of a user who is not stored any more.
Stale(s) ==
    /\ CURR_USER_KEY \in DOMAIN session[s]
    /\ session[s][CURR_USER_KEY] \notin DOMAIN users

\* The routes that turn away whoever is not logged in, once the guard form
\* (where there is one) has validated.
LoginRoutes ==
    {"add_follow", "stop_following", "delete_user", "messages_add",
     "messages_destroy", "like_message", "unlike_message"}

\* C17 (as amended): while a session holds the id of a deleted user, that id
\* stays the id of no stored user, and every request on that session is
\* handled as an anonymous one: the routes that need a login answer with the
\* redirect to / and "Access unauthorized." (the guard form having validated
\* where there is one), the profile route with 401, and no user, message,
\* follow or like is changed or deleted, and none created except the new
\* user of a signup completed on that session.
C17_StaleSessionAnonymous ==
    [][\A s \in Sessions :
          Stale(s)
          => /\ session'[s] = session[s] => Stale(s)'
             /\ resp'.sess = s
                => /\ (resp'.op \in LoginRoutes
                        /\ (resp'.ok \/ resp'.op = "messages_add"))
                      => /\ resp'.status = 302
                         /\ resp'.loc = "/"
                         /\ resp'.flash = "Access unauthorized."
                   /\ resp'.op = "profile" => resp'.status = 401
                   /\ resp'.op # "signup" => UNCHANGED store
                   /\ resp'.op = "signup"
                      => /\ UNCHANGED <<messages, follows, likes>>
                         /\ \A o \in DOMAIN users :
                               o \in DOMAIN users' /\ users'[o] = users[o]
                         /\ \A o \in DOMAIN users' \ DOMAIN users :
                               /\ users'[o] = pending[s]
                               /\ session'[s] = (CURR_USER_KEY :> o)]_vars

\* A new message posted on a session that holds the id of a deleted user
\* was turned away, another user being stored.
C17_Witness ==
    /\ resp.op = "messages_add"
    /\ resp.ok
    /\ resp.text # ""
    /\ resp.status = 302
    /\ resp.flash = "Access unauthorized."
    /\ Stale(resp.sess)
    /\ users # << >>
    /\ messages = << >>

\* C17 as stated: no request on a session that holds the id of a deleted
\* user creates, changes or deletes a user, message, follow or like.
C17_StaleSessionWritesNothing ==
    [][\A s \in Sessions :
          (Stale(s) /\ resp'.sess = s) => UNCHANGED store]_vars
====
